---- MODULE Spec2Model ----
(***************************************************************************)
(* A model of playground/infrastructure/helper.py: the bounded-concurrency *)
(* status polling engine (get_statuses, _update_example_status), the scan  *)
(* root pre-check (_check_no_nested), the tag validator (_validate), the   *)
(* example builder (_get_example, validate_example_fields), the discovery  *)
(* pass (find_examples, _check_file) and the tag scanner (get_tag).        *)
(*                                                                         *)
(* Each component has its own variables and its own specification; a       *)
(* specification leaves the variables of the other components at their     *)
(* idle values.                                                            *)
(***************************************************************************)
EXTENDS Integers, Sequences, FiniteSets, TLC

VARIABLES
    \* ---- status polling engine (get_statuses) ----
    arg,          \* the concurrency argument of get_statuses
    env,          \* os.environ's BEAM_CONCURRENCY entry
    limit,        \* the local `concurrency` after the override block
    semMade,      \* whether asyncio.Semaphore(concurrency) was constructed
    semValue,     \* the semaphore's counter (free slots)
    gsPc,         \* get_statuses: "init", "gathering", "returned", "raised"
    pc,           \* per example: position of its _semaphored_task
    pipeline_id,  \* per example: Example.pipeline_id
    status,       \* per example: Example.status
    pending,      \* non-terminal replies the backend may still give
    \* ---- scan root pre-check (_check_no_nested) ----
    subdirs,      \* the list of scan roots, each a sequence of characters
    nnPc,         \* _check_no_nested: "init", "returned", "raised"
    \* ---- tag validator (_validate) ----
    vTag,         \* the tag: a mapping from the fields present to their values
    vPc,          \* _validate: "init", "returned"
    vResult,      \* the value _validate returned
    vLog,         \* the logging.error calls _validate made, in order
    \* ---- example builder (_get_example) ----
    exFile,       \* the file: its path, extension, content and tag
    exPc,         \* _get_example: "init", "returned", "raised"
    exResult,     \* the Example returned
    exError,      \* the check of validate_example_fields that raised
    \* ---- discovery pass (find_examples) ----
    feSubdirs,    \* the subdirs argument
    walk,         \* the files os.walk yields, subdir by subdir
    pos,          \* the file the loops are at
    has_error,    \* find_examples' has_error
    examples,     \* find_examples' examples
    feLogged,     \* the files logged as carrying a tag of incorrect format
    fePc,         \* find_examples: "init", "scanning", "returned", "raised_*"
    \* ---- tag scanner (get_tag) ----
    lines,        \* parsed_file.readlines(): the lines of the file
    lineNo,       \* the line the for loop is at
    add_to_yaml,  \* get_tag's add_to_yaml
    yaml_string,  \* get_tag's yaml_string
    tag_string,   \* get_tag's tag_string
    gtPc,         \* get_tag: "init", "loop", "after", "returned", "raised"
    gtResult      \* the value get_tag returned

pollVars == <<arg, env, limit, semMade, semValue, gsPc, pc, pipeline_id, status, pending>>

nestedVars == <<subdirs, nnPc>>

validateVars == <<vTag, vPc, vResult, vLog>>

exampleVars == <<exFile, exPc, exResult, exError>>

findVars == <<feSubdirs, walk, pos, has_error, examples, feLogged, fePc>>

tagVars == <<lines, lineNo, add_to_yaml, yaml_string, tag_string, gtPc, gtResult>>

vars == <<pollVars, nestedVars, validateVars, exampleVars, findVars, tagVars>>

\* The variables the polling engine leaves alone.
nonPollVars == <<nestedVars, validateVars, exampleVars, findVars, tagVars>>
\* The variables the scan root pre-check leaves alone.
nonNestedVars == <<pollVars, validateVars, exampleVars, findVars, tagVars>>
\* The variables the tag validator leaves alone.
nonValidateVars == <<pollVars, nestedVars, exampleVars, findVars, tagVars>>
\* The variables the example builder leaves alone.
nonExampleVars == <<pollVars, nestedVars, validateVars, findVars, tagVars>>
\* The variables the tag scanner leaves alone.
nonTagVars == <<pollVars, nestedVars, validateVars, exampleVars, findVars>>
\* The variables the discovery pass leaves alone.
nonFindVars == <<pollVars, nestedVars, validateVars, exampleVars, tagVars>>

(***************************************************************************)
(* Bounds of the model.                                                    *)
(***************************************************************************)
MaxExamples == 3
MaxPending == 2
MaxOverride == 2
MaxPathLen == 3
MaxSubdirs == 3
MaxDefects == 3
MaxFiles == 3
MaxLines == 4

(***************************************************************************)
(* Status polling engine.                                                  *)
(***************************************************************************)
Examples == 1..MaxExamples

\* get_statuses(client, examples, concurrency: int = 10)
DefaultConcurrency == 10

STATUS_UNSPECIFIED == "STATUS_UNSPECIFIED"

\* The statuses on which _update_example_status keeps polling.
NonTerminalStatuses ==
    {"STATUS_VALIDATING", "STATUS_PREPARING", "STATUS_COMPILING", "STATUS_EXECUTING"}

\* What check_status may answer: a non-terminal status or a final one.
BackendStatuses == NonTerminalStatuses \cup {"STATUS_FINISHED", "STATUS_ERROR"}

\* The id run_code answers with.
BackendPipelineIds == {"pipeline-uuid"}

\* Values of the concurrency argument a caller passes (the default among them).
ConcurrencyArgs == {1, 2, DefaultConcurrency}

\* os.environ["BEAM_CONCURRENCY"]: absent, a text int() rejects, or the text
\* of an integer (val).
EnvOverrides ==
    {[kind |-> "absent", val |-> 0], [kind |-> "text", val |-> 0]}
        \cup {[kind |-> "int", val |-> v] : v \in (-1)..MaxOverride}

\* int(os.environ["BEAM_CONCURRENCY"]) raises KeyError (absent) or ValueError
\* (not the text of an integer); both are caught and leave `concurrency` alone.
OverrideRaises(e) == e.kind \in {"absent", "text"}

\* The local `concurrency` after the try/except block.
EffectiveConcurrency(a, e) == IF OverrideRaises(e) THEN a ELSE e.val

\* Tasks between semaphore.acquire() and semaphore.release().
GatedPcs == {"submit", "poll", "sleep"}
EndedPcs == {"done", "failed"}
Inside == {e \in Examples : pc[e] \in GatedPcs}

PollInit ==
    /\ arg \in ConcurrencyArgs
    /\ env \in EnvOverrides
    /\ limit = arg
    /\ semMade = FALSE
    /\ semValue = 0
    /\ gsPc = "init"
    /\ pc = [e \in Examples |-> "new"]
    /\ pipeline_id = [e \in Examples |-> ""]
    /\ status = [e \in Examples |-> STATUS_UNSPECIFIED]
    /\ pending = MaxPending

\* The engine before get_statuses is called (the other components' runs).
PollIdle ==
    /\ arg = DefaultConcurrency
    /\ env = [kind |-> "absent", val |-> 0]
    /\ limit = arg
    /\ semMade = FALSE
    /\ semValue = 0
    /\ gsPc = "init"
    /\ pc = [e \in Examples |-> "new"]
    /\ pipeline_id = [e \in Examples |-> ""]
    /\ status = [e \in Examples |-> STATUS_UNSPECIFIED]
    /\ pending = MaxPending

\* get_statuses up to its await: resolve the limit, build the semaphore
\* (asyncio.Semaphore raises ValueError on a negative value), create one
\* task per example and hand them to gather.
GetStatuses ==
    /\ gsPc = "init"
    /\ limit' = EffectiveConcurrency(arg, env)
    /\ IF limit' < 0
         THEN /\ gsPc' = "raised"
              /\ UNCHANGED <<semMade, semValue, pc>>
         ELSE /\ semMade' = TRUE
              /\ semValue' = limit'
              /\ pc' = [e \in Examples |-> "waiting"]
              /\ gsPc' = "gathering"
    /\ UNCHANGED <<nonPollVars, arg, env, pipeline_id, status, pending>>

\* A gate that admits without waiting for a free slot.
SemAcquireNoWait(e) ==
    /\ pc[e] = "waiting"
    /\ semValue' = semValue - 1
    /\ pc' = [pc EXCEPT ![e] = "submit"]
    /\ UNCHANGED <<nonPollVars, arg, env, limit, semMade, gsPc, pipeline_id, status, pending>>

\* await semaphore.acquire(): proceeds only when a slot is free.
SemAcquire(e) ==
    /\ pc[e] = "waiting"
    /\ semValue > 0
    /\ semValue' = semValue - 1
    /\ pc' = [pc EXCEPT ![e] = "submit"]
    /\ UNCHANGED <<nonPollVars, arg, env, limit, semMade, gsPc, pipeline_id, status, pending>>

\* finally: semaphore.release()
SemRelease(v) == v + 1

\* pipeline_id = await client.run_code(...); example.pipeline_id = pipeline_id
RunCode(e) ==
    /\ pc[e] = "submit"
    /\ \E id \in BackendPipelineIds : pipeline_id' = [pipeline_id EXCEPT ![e] = id]
    /\ pc' = [pc EXCEPT ![e] = "poll"]
    /\ UNCHANGED <<nonPollVars, arg, env, limit, semMade, semValue, gsPc, status, pending>>

\* An exit without the finally clause: the slot of a failing task is kept.
TaskFailsKeepingSlot(e) ==
    /\ pc' = [pc EXCEPT ![e] = "failed"]
    /\ UNCHANGED <<nonPollVars, arg, env, limit, semMade, semValue, gsPc, pipeline_id, status, pending>>

\* The exit of _semaphored_task when _update_example_status raises: the
\* finally clause releases the slot and the task ends with the exception.
TaskFails(e) ==
    /\ semValue' = SemRelease(semValue)
    /\ pc' = [pc EXCEPT ![e] = "failed"]
    /\ UNCHANGED <<nonPollVars, arg, env, limit, semMade, gsPc, pipeline_id, status, pending>>

\* client.run_code raises.
RunCodeRaises(e) ==
    /\ pc[e] = "submit"
    /\ TaskFails(e)

\* A poll that stores whatever the first reply is and ends.
CheckStatusOnce(e) ==
    /\ pc[e] = "poll"
    /\ \E s \in BackendStatuses :
         /\ status' = [status EXCEPT ![e] = s]
         /\ semValue' = semValue + 1
         /\ pc' = [pc EXCEPT ![e] = "done"]
    /\ UNCHANGED <<nonPollVars, arg, env, limit, semMade, gsPc, pipeline_id, pending>>

\* status = await client.check_status(pipeline_id), then the loop test: a
\* non-terminal status leads to the sleep, any other is stored on the example
\* and the task ends, releasing its slot.
CheckStatus(e) ==
    /\ pc[e] = "poll"
    /\ \E s \in BackendStatuses :
         IF s \in NonTerminalStatuses
           THEN /\ pending > 0
                /\ pending' = pending - 1
                /\ pc' = [pc EXCEPT ![e] = "sleep"]
                /\ UNCHANGED <<status, semValue>>
           ELSE /\ status' = [status EXCEPT ![e] = s]
                /\ semValue' = SemRelease(semValue)
                /\ pc' = [pc EXCEPT ![e] = "done"]
                /\ UNCHANGED pending
    /\ UNCHANGED <<nonPollVars, arg, env, limit, semMade, gsPc, pipeline_id>>

\* client.check_status raises.
CheckStatusRaises(e) ==
    /\ pc[e] = "poll"
    /\ TaskFails(e)

\* await asyncio.sleep(Config.PAUSE_DELAY) is over: poll again.
Sleep(e) ==
    /\ pc[e] = "sleep"
    /\ pc' = [pc EXCEPT ![e] = "poll"]
    /\ UNCHANGED <<nonPollVars, arg, env, limit, semMade, semValue, gsPc, pipeline_id, status, pending>>

\* await tqdm.gather(*tasks): every task ended without an exception.
GatherReturns ==
    /\ gsPc = "gathering"
    /\ \A e \in Examples : pc[e] = "done"
    /\ gsPc' = "returned"
    /\ UNCHANGED <<nonPollVars, arg, env, limit, semMade, semValue, pc, pipeline_id, status, pending>>

\* A gather that cancels the tasks still running when one fails.
GatherRaisesCancelling ==
    /\ gsPc = "gathering"
    /\ \E e \in Examples : pc[e] = "failed"
    /\ gsPc' = "raised"
    /\ pc' = [e \in Examples |-> IF pc[e] \in EndedPcs THEN pc[e] ELSE "cancelled"]
    /\ UNCHANGED <<nonPollVars, arg, env, limit, semMade, semValue, pipeline_id, status, pending>>

\* await tqdm.gather(*tasks): gather awaits the tasks as they complete and
\* re-raises the exception of a failed one at once; the tasks still running
\* stay scheduled on the event loop.
GatherRaises ==
    /\ gsPc = "gathering"
    /\ \E e \in Examples : pc[e] = "failed"
    /\ gsPc' = "raised"
    /\ UNCHANGED <<nonPollVars, arg, env, limit, semMade, semValue, pc, pipeline_id, status, pending>>

TaskStep(e) == SemAcquire(e) \/ RunCode(e) \/ CheckStatus(e) \/ Sleep(e)
TaskRaise(e) == RunCodeRaises(e) \/ CheckStatusRaises(e)

PollNext ==
    \/ GetStatuses
    \/ \E e \in Examples : SemAcquire(e)
    \/ \E e \in Examples : RunCode(e)
    \/ \E e \in Examples : RunCodeRaises(e)
    \/ \E e \in Examples : CheckStatus(e)
    \/ \E e \in Examples : CheckStatusRaises(e)
    \/ \E e \in Examples : Sleep(e)
    \/ GatherReturns
    \/ GatherRaises

\* The same engine against a backend that never raises.
PollNextNoRaise ==
    \/ GetStatuses
    \/ \E e \in Examples : SemAcquire(e)
    \/ \E e \in Examples : RunCode(e)
    \/ \E e \in Examples : CheckStatus(e)
    \/ \E e \in Examples : Sleep(e)
    \/ GatherReturns

(***************************************************************************)
(* Python values as they occur in a parsed tag.                            *)
(***************************************************************************)
PyNone == [type |-> "none"]
PyStr(x) == [type |-> "str", s |-> x]
PyInt(x) == [type |-> "int", n |-> x]
PyBool(x) == [type |-> "bool", b |-> x]
PyList(x) == [type |-> "list", items |-> x]
PyDict(x) == [type |-> "dict", d |-> x]

\* str(value)
StrOf(x) ==
    CASE x.type = "str" -> x.s
      [] x.type = "none" -> "None"
      [] x.type = "bool" -> IF x.b THEN "True" ELSE "False"
      [] x.type = "int" -> (CASE x.n = 0 -> "0" [] x.n = 1 -> "1" [] OTHER -> "10")
      [] OTHER -> "[...]"

\* str.lower() on the texts of the model.
Lower(t) ==
    CASE t \in {"True", "TRUE", "true"} -> "true"
      [] t \in {"False", "FALSE", "false"} -> "false"
      [] t = "None" -> "none"
      [] OTHER -> t

\* value == "" or value is None
IsEmptyValue(x) == x.type = "none" \/ (x.type = "str" /\ x.s = "")

\* isinstance(value, int): a bool is an int in Python.
IsInstanceInt(x) == x.type \in {"int", "bool"}

\* bool(value), for the values a tag field may hold
Truthy(x) ==
    CASE x.type = "none" -> FALSE
      [] x.type = "str" -> x.s # ""
      [] x.type = "int" -> x.n # 0
      [] x.type = "bool" -> x.b
      [] x.type = "list" -> x.items # <<>>
      [] OTHER -> DOMAIN x.d # {}

\* dict.get(key): None when the key is absent.
Get(d, k) == IF k \in DOMAIN d THEN d[k] ELSE PyNone

(***************************************************************************)
(* Tag validator: _validate.                                               *)
(***************************************************************************)
\* The fields of Tag.
TagFields ==
    {"name", "complexity", "emulators", "datasets", "description", "multifile",
     "categories", "pipeline_options", "default_example", "context_line", "tags",
     "url_notebook"}

\* config.OptionalTagFields.
OptionalTagFields == {"emulators", "datasets", "url_notebook"}

\* required_tag_fields
RequiredTagFields == TagFields \ OptionalTagFields

\* One order in which the set required_tag_fields may be iterated, and its
\* rotations: every field comes first in one of them.
FieldOrder ==
    <<"name", "complexity", "description", "multifile", "categories",
      "pipeline_options", "default_example", "context_line", "tags">>
Rotate(sq, k) == [i \in 1..Len(sq) |-> sq[((i + k - 1) % Len(sq)) + 1]]
FieldOrders == {Rotate(FieldOrder, k) : k \in 0..(Len(FieldOrder) - 1)}

SupportedCategories == {"Core", "IO"}

LogEntry(rule, what) == [rule |-> rule, what |-> what]

\* The loop over required_tag_fields; st is [valid, log] so far.
RECURSIVE RequiredLoop(_, _, _)
RequiredLoop(order, tag, st) ==
    IF order = <<>> THEN st
    ELSE LET field == Head(order)
             s1 == IF field \notin DOMAIN tag
                     THEN [valid |-> FALSE, log |-> Append(st.log, LogEntry("missing", field))]
                     ELSE st
             s2 == IF s1.valid /\ IsEmptyValue(Get(tag, field)) /\ field # "pipeline_options"
                     THEN [valid |-> FALSE, log |-> Append(s1.log, LogEntry("empty", field))]
                     ELSE s1
         IN  RequiredLoop(Tail(order), tag, s2)

\* The check that multifile's value is boolean.
MultifileCheck(tag, st) ==
    IF Lower(StrOf(Get(tag, "multifile"))) \notin {"true", "false"}
      THEN [valid |-> FALSE, log |-> Append(st.log, LogEntry("multifile", "multifile"))]
      ELSE st

\* The loop over the categories of a list.
RECURSIVE CategoryLoop(_, _, _)
CategoryLoop(cats, supported, st) ==
    IF cats = <<>> THEN st
    ELSE CategoryLoop(Tail(cats), supported,
             IF Head(cats) \notin supported
               THEN [valid |-> FALSE, log |-> Append(st.log, LogEntry("category", Head(cats)))]
               ELSE st)

\* The check that categories is a list of supported categories.
CategoriesCheck(tag, supported, st) ==
    LET categories == Get(tag, "categories")
    IN  IF categories.type # "list"
          THEN [valid |-> FALSE,
                log |-> Append(st.log, LogEntry("categories_type", "categories"))]
          ELSE CategoryLoop(categories.items, supported, st)

\* The check that context_line is an integer.
ContextLineCheck(tag, st) ==
    IF ~IsInstanceInt(Get(tag, "context_line"))
      THEN [valid |-> FALSE, log |-> Append(st.log, LogEntry("context_line", "context_line"))]
      ELSE st

\* A validator without the return after the required fields loop.
ValidateTagNoEarlyReturn(tag, supported, order) ==
    ContextLineCheck(tag,
        CategoriesCheck(tag, supported,
            MultifileCheck(tag, RequiredLoop(order, tag, [valid |-> TRUE, log |-> <<>>]))))

\* _validate(tag, supported_categories), iterating required_tag_fields in
\* `order`: [valid |-> the value returned, log |-> the errors logged].
ValidateTag(tag, supported, order) ==
    LET st == RequiredLoop(order, tag, [valid |-> TRUE, log |-> <<>>])
    IN  IF ~st.valid THEN st
        ELSE ContextLineCheck(tag, CategoriesCheck(tag, supported, MultifileCheck(tag, st)))

\* A well-formed tag.
BaseTag ==
    [f \in RequiredTagFields |->
        CASE f = "multifile" -> PyBool(FALSE)
          [] f = "default_example" -> PyBool(FALSE)
          [] f = "categories" -> PyList(<<"Core">>)
          [] f = "tags" -> PyList(<<"demo">>)
          [] f = "context_line" -> PyInt(10)
          [] OTHER -> PyStr("text")]

Absent == [type |-> "absent"]

\* What a field of a tag may hold instead of BaseTag's value (Absent: the
\* field is not in the tag).
Variants(f) ==
    CASE f = "multifile" -> {Absent, PyNone, PyStr("TRUE"), PyStr("maybe"), PyInt(1)}
      [] f = "categories" ->
            {Absent, PyNone, PyStr("Core"), PyList(<<>>), PyList(<<"Core", "Bogus">>),
             PyList(<<"Bogus", "Other">>)}
      [] f = "context_line" -> {Absent, PyNone, PyStr("10"), PyBool(TRUE)}
      [] OTHER -> {Absent, PyNone, PyStr("")}

\* The tags that differ from BaseTag in at most k of the fields of `fs`.
RECURSIVE TagsOver(_, _)
TagsOver(fs, k) ==
    IF fs = <<>> THEN {<<>>}
    ELSE LET f == Head(fs)
             keep == {(f :> BaseTag[f]) @@ t : t \in TagsOver(Tail(fs), k)}
             change == IF k = 0 THEN {}
                       ELSE UNION {{IF x = Absent THEN t ELSE (f :> x) @@ t : x \in Variants(f)}
                                     : t \in TagsOver(Tail(fs), k - 1)}
         IN  keep \cup change

\* The tags the validator is given.
Tags(k) == TagsOver(FieldOrder, k)

ValidateIdle ==
    /\ vTag = <<>>
    /\ vPc = "init"
    /\ vResult = TRUE
    /\ vLog = <<>>

ValidateInit ==
    /\ vTag \in Tags(MaxDefects)
    /\ vPc = "init"
    /\ vResult = TRUE
    /\ vLog = <<>>

Validate ==
    /\ vPc = "init"
    /\ \E order \in FieldOrders :
         LET r == ValidateTag(vTag, SupportedCategories, order)
         IN  vResult' = r.valid /\ vLog' = r.log
    /\ vPc' = "returned"
    /\ UNCHANGED <<nonValidateVars, vTag>>

\* The four rules of the validator, as violated by a tag.
Rule1Violated(tag) ==
    \E f \in RequiredTagFields :
        f \notin DOMAIN tag \/ (f # "pipeline_options" /\ IsEmptyValue(tag[f]))
\* Rules 2 to 4 are about the value of a field that has one.
HasValue(tag, f) == f \in DOMAIN tag /\ ~IsEmptyValue(tag[f])
Rule2Violated(tag) ==
    HasValue(tag, "multifile") /\ Lower(StrOf(tag["multifile"])) \notin {"true", "false"}
UnsupportedCategory(tag) ==
    LET c == Get(tag, "categories")
    IN  c.type = "list" /\ \E i \in 1..Len(c.items) : c.items[i] \notin SupportedCategories
Rule3Violated(tag) ==
    HasValue(tag, "categories")
        /\ (tag["categories"].type # "list" \/ UnsupportedCategory(tag))
Rule4Violated(tag) == HasValue(tag, "context_line") /\ ~IsInstanceInt(tag["context_line"])

RuleLogged(rules) == \E i \in 1..Len(vLog) : vLog[i].rule \in rules
Rule1Logged == RuleLogged({"missing", "empty"})
Rule2Logged == RuleLogged({"multifile"})
Rule3Logged == RuleLogged({"categories_type", "category"})
Rule4Logged == RuleLogged({"context_line"})

MissesRequired(tag) == \E f \in RequiredTagFields : f \notin DOMAIN tag

\* C8 as claimed: _validate returns False for a tag that misses a required
\* field or has an unsupported category, and logs an error for each violated
\* rule of the four, whatever the combination of violations.
C8_LogsEveryViolatedRule ==
    vPc = "returned" =>
        /\ (MissesRequired(vTag) \/ UnsupportedCategory(vTag)) => vResult = FALSE
        /\ Rule1Violated(vTag) => Rule1Logged
        /\ Rule2Violated(vTag) => Rule2Logged
        /\ Rule3Violated(vTag) => Rule3Logged
        /\ Rule4Violated(vTag) => Rule4Logged

\* C8 as amended: _validate returns False exactly for the tags that violate
\* a rule; when the required-field rule is violated it logs that rule and
\* no other; otherwise it logs each of the three other rules that is
\* violated, and only those.
C8_LogsRule1OrTheOthers ==
    vPc = "returned" =>
        /\ (MissesRequired(vTag) \/ UnsupportedCategory(vTag)) => vResult = FALSE
        /\ vResult = ~(Rule1Violated(vTag) \/ Rule2Violated(vTag)
                         \/ Rule3Violated(vTag) \/ Rule4Violated(vTag))
        /\ Rule1Violated(vTag) =>
              Rule1Logged /\ ~Rule2Logged /\ ~Rule3Logged /\ ~Rule4Logged
        /\ ~Rule1Violated(vTag) =>
              /\ ~Rule1Logged
              /\ Rule2Logged = Rule2Violated(vTag)
              /\ Rule3Logged = Rule3Violated(vTag)
              /\ Rule4Logged = Rule4Violated(vTag)

\* Three rules violated at once with all required fields present: three
\* kinds of error logged.
C8_Witness ==
    /\ vPc = "returned"
    /\ ~Rule1Violated(vTag)
    /\ Rule2Violated(vTag) /\ Rule3Violated(vTag) /\ Rule4Violated(vTag)
    /\ Rule2Logged /\ Rule3Logged /\ Rule4Logged
    /\ vResult = FALSE

(***************************************************************************)
(* Claims about the status polling engine.                                 *)
(***************************************************************************)
FinalStatuses == BackendStatuses \ NonTerminalStatuses
Recorded(e) == pipeline_id[e] \in BackendPipelineIds /\ status[e] \in FinalStatuses

\* C1: with an effective limit N >= 1, in every reachable state at most N
\* tasks are between semaphore.acquire and semaphore.release.
C1_AtMostNInside ==
    (semMade /\ limit >= 1) => Cardinality(Inside) <= limit

\* More examples than slots: the gate is full and a task is held back.
C1_Witness ==
    /\ limit >= 1
    /\ limit < MaxExamples
    /\ Cardinality(Inside) = limit
    /\ \E e \in Examples : pc[e] = "waiting"

\* C2: with N >= 1, a backend that never raises and jobs whose polls end,
\* fair scheduling leads every example to a pipeline id and a final status,
\* and get_statuses returns.
C2_AllReachTerminal ==
    (gsPc = "gathering" /\ limit >= 1)
        ~> (gsPc = "returned" /\ \A e \in Examples : Recorded(e))

\* The batch returned after queueing on the gate and polling more than once.
C2_Witness ==
    /\ gsPc = "returned"
    /\ limit >= 1
    /\ limit < MaxExamples
    /\ pending = 0
    /\ \A e \in Examples : Recorded(e)

C4_CompletesOnlyWhenAllEnded ==
    gsPc \in {"returned", "raised"}
        => \A e \in Examples : pc[e] \notin ({"waiting"} \cup GatedPcs)

\* C5: free slots plus tasks inside the gated section equal N in every
\* reachable state, on every exit path, and a task queued on the gate is
\* eventually admitted.
C5_SlotsConserved ==
    /\ [](semMade => semValue + Cardinality(Inside) = limit)
    /\ \A e \in Examples : (limit >= 1 /\ pc[e] = "waiting") ~> (pc[e] # "waiting")

\* With one slot, a task failed, a later task holds the slot it gave back,
\* and a third is still queued.
C5_Witness ==
    /\ limit = 1
    /\ \E f \in Examples : pc[f] = "failed"
    /\ \E e \in Examples : pc[e] \in GatedPcs
    /\ \E g \in Examples : pc[g] = "waiting"
    /\ semValue = 0

\* An override int() accepts and that is a usable limit.
ValidOverride(e) == e.kind = "int" /\ e.val >= 1

\* C6: for every absent or invalid override (text that is no number, zero,
\* a negative number) get_statuses falls back to the concurrency argument,
\* raises no error and has a gate that admits tasks.
C6_InvalidOverrideFallsBack ==
    (gsPc # "init" /\ ~ValidOverride(env))
        => (limit = arg /\ semMade /\ gsPc # "raised" /\ limit >= 1)

(***************************************************************************)
(* Scan root pre-check: _check_no_nested.                                  *)
(*                                                                         *)
(* A path text is a sequence of characters; PurePath(s) is modelled by its *)
(* parts, as pathlib's PurePosixPath computes them: the root ("/" or,      *)
(* for exactly two leading slashes, "//") followed by the non-empty        *)
(* components between separators.                                          *)
(***************************************************************************)
PathChars == {"/", "a", "b"}

\* The code point of a character (the order str comparison uses).
Ord(c) == CASE c = "/" -> 47 [] c = "a" -> 97 [] c = "b" -> 98

BoundedSeqs(S, n) == UNION {[1..k -> S] : k \in 0..n}

PathTexts == BoundedSeqs(PathChars, MaxPathLen)

RECURSIVE LeadingSlashes(_)
LeadingSlashes(s) ==
    IF s = <<>> \/ Head(s) # "/" THEN 0 ELSE 1 + LeadingSlashes(Tail(s))

\* posix splitroot: two leading slashes are kept, one or three and more are "/".
RootOf(s) ==
    LET k == LeadingSlashes(s)
    IN  IF k = 0 THEN <<>> ELSE IF k = 2 THEN <<"/", "/">> ELSE <<"/">>

\* The non-empty pieces of s between separators; cur is the piece being read.
RECURSIVE SplitComponents(_, _)
SplitComponents(s, cur) ==
    IF s = <<>>
      THEN IF cur = <<>> THEN <<>> ELSE <<cur>>
      ELSE IF Head(s) = "/"
             THEN (IF cur = <<>> THEN <<>> ELSE <<cur>>) \o SplitComponents(Tail(s), <<>>)
             ELSE SplitComponents(Tail(s), Append(cur, Head(s)))

\* PurePath(s).parts
PurePath(s) ==
    LET root == RootOf(s)
    IN  (IF root = <<>> THEN <<>> ELSE <<root>>) \o SplitComponents(s, <<>>)

HasRoot(p) == p # <<>> /\ p[1][1] = "/"

\* str.__lt__: by code point, a proper prefix first.
RECURSIVE StrLess(_, _)
StrLess(x, y) ==
    IF y = <<>> THEN FALSE
    ELSE IF x = <<>> THEN TRUE
    ELSE IF Head(x) # Head(y) THEN Ord(Head(x)) < Ord(Head(y))
    ELSE StrLess(Tail(x), Tail(y))

\* PurePath.__lt__: the parts compared as lists.
RECURSIVE PathLess(_, _)
PathLess(p, q) ==
    IF q = <<>> THEN FALSE
    ELSE IF p = <<>> THEN TRUE
    ELSE IF Head(p) # Head(q) THEN StrLess(Head(p), Head(q))
    ELSE PathLess(Tail(p), Tail(q))

\* An element put into a sorted list, after the elements not greater than it.
RECURSIVE Insert(_, _)
Insert(x, sorted) ==
    IF sorted = <<>> THEN <<x>>
    ELSE IF PathLess(x, Head(sorted)) THEN <<x>> \o sorted
    ELSE <<Head(sorted)>> \o Insert(x, Tail(sorted))

\* sorted(PurePath(s) for s in subdirs)
RECURSIVE SortedPaths(_)
SortedPaths(dirs) ==
    IF dirs = <<>> THEN <<>>
    ELSE Insert(PurePath(dirs[Len(dirs)]), SortedPaths(SubSeq(dirs, 1, Len(dirs) - 1)))

\* PurePath.parents: the path without its last 1, 2, ... parts, down to the
\* root of a rooted path and to the empty path of a relative one.
Parents(p) ==
    LET n == IF HasRoot(p) THEN Len(p) - 1 ELSE Len(p)
    IN  [i \in 1..n |-> SubSeq(p, 1, Len(p) - i)]

InSeq(x, sq) == \E i \in 1..Len(sq) : sq[i] = x

\* dir1 in [dir2, *dir2.parents]
NestedPair(dir1, dir2) == InSeq(dir1, <<dir2>> \o Parents(dir2))

\* Whether _check_no_nested raises: some adjacent pair of the sorted list nests.
CheckNoNestedRaises(dirs) ==
    LET sorted_subdirs == SortedPaths(dirs)
    IN  \E i \in 1..(Len(sorted_subdirs) - 1) :
            NestedPair(sorted_subdirs[i], sorted_subdirs[i + 1])

NestedIdle == subdirs = <<>> /\ nnPc = "init"

NestedInit ==
    /\ subdirs \in BoundedSeqs(PathTexts, MaxSubdirs)
    /\ nnPc = "init"

CheckNoNested ==
    /\ nnPc = "init"
    /\ nnPc' = IF CheckNoNestedRaises(subdirs) THEN "raised" ELSE "returned"
    /\ UNCHANGED <<nonNestedVars, subdirs>>

\* p is a strict ancestor of q: q's parts continue p's, within the same root.
StrictAncestor(p, q) ==
    /\ Len(p) < Len(q)
    /\ SubSeq(q, 1, Len(p)) = p
    /\ HasRoot(q) => p # <<>>

\* C7: _check_no_nested raises whenever some scan root is a strict ancestor
\* of another, whatever the order, the paths sorting between them and the
\* trailing separators, and raises nothing when no root is an ancestor of or
\* equal to another.
C7_RaisesIffNested ==
    nnPc # "init" =>
        LET P == [i \in 1..Len(subdirs) |-> PurePath(subdirs[i])]
            I == 1..Len(subdirs)
        IN  /\ (\E i, j \in I : StrictAncestor(P[i], P[j])) => nnPc = "raised"
            /\ (\A i, j \in I : i # j => ~StrictAncestor(P[i], P[j]) /\ P[i] # P[j])
                   => nnPc = "returned"

(***************************************************************************)
(* Example builder: _get_example and validate_example_fields.              *)
(*                                                                         *)
(* A file is [dir, segs, stem, ext, code, tag]: the scan root it is under, *)
(* the directories of its path, its name and extension, its content with   *)
(* the tag text taken out, and what get_tag yields for it: no tag, or the  *)
(* parsed mapping with the number of newlines of the tag text. A dict is a *)
(* sequence of [key, value] in insertion order.                            *)
(***************************************************************************)
SDK_UNSPECIFIED == "SDK_UNSPECIFIED"

\* Config.EXTENSION_TO_SDK
ExtensionToSdk(ext) ==
    CASE ext = "java" -> "SDK_JAVA" [] ext = "py" -> "SDK_PYTHON" [] OTHER -> "SDK_GO"

\* Config.SDK_TO_EXTENSION
SdkToExtension(sdk) ==
    CASE sdk = "SDK_JAVA" -> "java" [] sdk = "SDK_PYTHON" -> "py" [] OTHER -> "go"

NoTag == [present |-> FALSE]
ExampleTag(dict, newlines) == [present |-> TRUE, dict |-> dict, newlines |-> newlines]

DatasetEntry(key, location, format) ==
    [key |-> key, value |-> [location |-> location, format |-> format, path |-> "data"]]
EmulatorEntry(key, dataset) ==
    [key |-> key, value |-> [topic |-> [id |-> "topic", dataset |-> dataset]]]

\* Values of a tag's datasets field.
DatasetsChoices ==
    {Absent, PyNone, PyDict(<<>>),
     PyDict(<<DatasetEntry("ds1", "local", "json")>>),
     PyDict(<<DatasetEntry("ds1", "local", "json"), DatasetEntry("ds2", "local", "avro")>>),
     PyDict(<<DatasetEntry("ds1", "local", "csv")>>),
     PyDict(<<DatasetEntry("ds1", "", "json")>>)}

\* Values of a tag's emulators field.
EmulatorsChoices ==
    {Absent, PyDict(<<>>),
     PyDict(<<EmulatorEntry("kafka", "ds1")>>),
     PyDict(<<EmulatorEntry("kafka", "ds2")>>),
     PyDict(<<EmulatorEntry("kafka", "other")>>),
     PyDict(<<EmulatorEntry("pubsub", "ds1")>>),
     PyDict(<<EmulatorEntry("kafka", "ds1"), EmulatorEntry("pubsub", "ds1")>>)}

\* A tag with (or, for Absent, without) the field f.
WithField(tag, f, x) == IF x = Absent THEN tag ELSE (f :> x) @@ tag

\* int(value) of a context_line that passed the validator.
IntOf(x) == IF x.type = "bool" THEN (IF x.b THEN 1 ELSE 0) ELSE x.n

\* _get_example up to validate_example_fields: the Example built from the
\* file and its tag.
BuildExample(file) ==
    LET tag == file.tag.dict
        ds == Get(tag, "datasets")
        em == Get(tag, "emulators")
    IN  [name |-> tag["name"],
         complexity |-> tag["complexity"],
         sdk |-> ExtensionToSdk(file.ext),
         filepath |-> Append(file.segs, file.stem),
         code |-> file.code,
         status |-> STATUS_UNSPECIFIED,
         context_line |-> IntOf(tag["context_line"]) - file.tag.newlines,
         url_vcs |-> <<"URL_VCS_PREFIX">> \o Append(file.segs, file.stem),
         datasets |->
             IF Truthy(ds)
               THEN [i \in 1..Len(ds.d) |->
                        [name |-> ds.d[i].key,
                         location |-> ds.d[i].value.location,
                         format |-> ds.d[i].value.format,
                         path |-> ds.d[i].value.path]]
               ELSE <<>>,
         emulators |->
             IF Truthy(em)
               THEN [i \in 1..Len(em.d) |->
                        [name |-> em.d[i].key, topic |-> em.d[i].value.topic]]
               ELSE <<>>]

IsEmptyStr(x) == x.type = "str" /\ x.s = ""

\* dataset_names
DatasetNames(ex) == {ex.datasets[i].name : i \in 1..Len(ex.datasets)}

\* The dataset loop's test.
InvalidDataset(ds) ==
    \/ ds.location = ""
    \/ ds.format = ""
    \/ ds.location \notin {"local"}
    \/ ds.format \notin {"json", "avro"}

\* The emulator loop's test.
InvalidEmulator(em, names) == ~(em.name = "kafka" /\ em.topic.dataset \in names)

\* validate_example_fields without the test for datasets without emulators.
ValidateExampleFieldsNoPairing(ex) ==
    IF ex.filepath = <<>> THEN "no_filepath"
    ELSE IF IsEmptyStr(ex.name) THEN "no_name"
    ELSE IF ex.sdk = SDK_UNSPECIFIED THEN "no_sdk"
    ELSE IF ex.code = "" THEN "no_code"
    ELSE IF ex.url_vcs = <<>> THEN "no_url_vcs"
    ELSE IF IsEmptyStr(ex.complexity) THEN "no_complexity"
    ELSE IF \E i \in 1..Len(ex.datasets) : InvalidDataset(ex.datasets[i])
      THEN "invalid_dataset"
    ELSE IF \E i \in 1..Len(ex.emulators) : InvalidEmulator(ex.emulators[i], DatasetNames(ex))
      THEN "invalid_emulator"
    ELSE "ok"

\* validate_example_fields: the test that raises ValidationException, in the
\* order of the code, or "ok".
ValidateExampleFields(ex) ==
    IF ex.filepath = <<>> THEN "no_filepath"
    ELSE IF IsEmptyStr(ex.name) THEN "no_name"
    ELSE IF ex.sdk = SDK_UNSPECIFIED THEN "no_sdk"
    ELSE IF ex.code = "" THEN "no_code"
    ELSE IF ex.url_vcs = <<>> THEN "no_url_vcs"
    ELSE IF IsEmptyStr(ex.complexity) THEN "no_complexity"
    ELSE IF ex.datasets # <<>> /\ ex.emulators = <<>> THEN "datasets_without_emulators"
    ELSE IF ex.emulators # <<>> /\ ex.datasets = <<>> THEN "emulators_without_datasets"
    ELSE IF \E i \in 1..Len(ex.datasets) : InvalidDataset(ex.datasets[i])
      THEN "invalid_dataset"
    ELSE IF \E i \in 1..Len(ex.emulators) : InvalidEmulator(ex.emulators[i], DatasetNames(ex))
      THEN "invalid_emulator"
    ELSE "ok"

\* The tags _get_example is given: well-formed but for the name, with any
\* datasets and emulators.
ExampleTags ==
    {WithField(WithField((("name" :> n) @@ BaseTag), "datasets", ds), "emulators", em) :
        n \in {PyStr("Foo"), PyStr("")}, ds \in DatasetsChoices, em \in EmulatorsChoices}

ExampleFiles ==
    {[dir |-> 1, segs |-> <<"examples">>, stem |-> "Foo", ext |-> "java", code |-> c,
      tag |-> ExampleTag(t, 2)] : c \in {"", "code"}, t \in ExampleTags}

NoExample == [filepath |-> <<>>]

ExampleIdle ==
    /\ exFile = [dir |-> 1, segs |-> <<>>, stem |-> "", ext |-> "", code |-> "", tag |-> NoTag]
    /\ exPc = "init"
    /\ exResult = NoExample
    /\ exError = "ok"

ExampleInit ==
    /\ exFile \in ExampleFiles
    /\ exPc = "init"
    /\ exResult = NoExample
    /\ exError = "ok"

GetExample ==
    /\ exPc = "init"
    /\ LET example == BuildExample(exFile)
           err == ValidateExampleFields(example)
       IN  /\ exError' = err
           /\ IF err = "ok"
                THEN exPc' = "returned" /\ exResult' = example
                ELSE exPc' = "raised" /\ UNCHANGED exResult
    /\ UNCHANGED <<nonExampleVars, exFile>>

\* An Example has datasets iff it has emulators, and its emulators' topics
\* name datasets of the Example.
PairedDatasets(ex) ==
    /\ (ex.datasets # <<>>) = (ex.emulators # <<>>)
    /\ \A i \in 1..Len(ex.emulators) : ex.emulators[i].topic.dataset \in DatasetNames(ex)

TagHasDatasets(tag) == Truthy(Get(tag, "datasets"))
TagHasEmulators(tag) == Truthy(Get(tag, "emulators"))

\* C10: every Example _get_example returns has datasets iff it has
\* emulators, each emulator's topic dataset is the name of one of its
\* datasets, and a tag with only one of the two makes
\* validate_example_fields raise instead of yielding an Example.
C10_DatasetsIffEmulators ==
    /\ exPc = "returned" => PairedDatasets(exResult)
    /\ (exPc # "init"
          /\ TagHasDatasets(exFile.tag.dict) # TagHasEmulators(exFile.tag.dict))
         => (exPc = "raised" /\ exError # "ok" /\ exResult = NoExample)

\* An Example with two datasets and an emulator on the second was returned.
C10_Witness ==
    /\ exPc = "returned"
    /\ Len(exResult.datasets) = 2
    /\ Len(exResult.emulators) = 1
    /\ exResult.emulators[1].topic.dataset = "ds2"

(***************************************************************************)
(* Discovery pass: find_examples and _check_file.                          *)
(***************************************************************************)
\* The sdk argument of find_examples.
ScanSdk == "SDK_PYTHON"

\* The subdirs arguments: none, one, two apart, two nested.
SubdirChoices ==
    {<<>>, <<<<"a">>>>, <<<<"b">>, <<"a">>>>, <<<<"a", "/", "b">>, <<"a">>>>}

TagMissingName == [f \in RequiredTagFields \ {"name"} |-> BaseTag[f]]
TagBadCategory == ("categories" :> PyList(<<"Core", "Bogus">>)) @@ BaseTag
TagWithDatasets ==
    ("datasets" :> PyDict(<<DatasetEntry("ds1", "local", "json")>>))
        @@ ("emulators" :> PyDict(<<EmulatorEntry("kafka", "ds1")>>)) @@ BaseTag
TagDatasetsOnly == ("datasets" :> PyDict(<<DatasetEntry("ds1", "local", "json")>>)) @@ BaseTag

SourceFile(segs, stem, ext, tag) ==
    [dir |-> 1, segs |-> segs, stem |-> stem, ext |-> ext, code |-> "code", tag |-> tag]

\* The kinds of file a scan meets.
FileChoices ==
    {SourceFile(<<"infrastructure">>, "helper", "py", ExampleTag(TagMissingName, 10)),
     SourceFile(<<"examples">>, "Foo", "java", ExampleTag(TagMissingName, 10)),
     SourceFile(<<"examples">>, "plain", "py", NoTag),
     SourceFile(<<"examples">>, "noname", "py", ExampleTag(TagMissingName, 9)),
     SourceFile(<<"examples">>, "badcat", "py", ExampleTag(TagBadCategory, 11)),
     SourceFile(<<"examples">>, "good", "py", ExampleTag(BaseTag, 10)),
     SourceFile(<<"katas">>, "kafka", "py", ExampleTag(TagWithDatasets, 18)),
     SourceFile(<<"examples">>, "unpaired", "py", ExampleTag(TagDatasetsOnly, 14))}

\* The files under n scan roots, in the order of the loops: root by root.
Walks(n) ==
    {w \in BoundedSeqs({[f EXCEPT !.dir = d] : f \in FileChoices, d \in 1..n}, MaxFiles) :
        \A i \in 1..(Len(w) - 1) : w[i].dir <= w[i + 1].dir}

\* filepath.endswith("infrastructure/helper.py")
EndsWithHelper(file) ==
    /\ file.segs # <<>>
    /\ file.segs[Len(file.segs)] = "infrastructure"
    /\ file.stem = "helper"
    /\ file.ext = "py"

FindIdle ==
    /\ feSubdirs = <<>>
    /\ walk = <<>>
    /\ pos = 1
    /\ has_error = FALSE
    /\ examples = <<>>
    /\ feLogged = {}
    /\ fePc = "init"

FindInit ==
    /\ feSubdirs \in SubdirChoices
    /\ walk \in Walks(Len(feSubdirs))
    /\ pos = 1
    /\ has_error = FALSE
    /\ examples = <<>>
    /\ feLogged = {}
    /\ fePc = "init"

\* find_examples up to its loops: _check_no_nested(subdirs) may raise.
FindExamples ==
    /\ fePc = "init"
    /\ fePc' = IF CheckNoNestedRaises(feSubdirs) THEN "raised_nested" ELSE "scanning"
    /\ UNCHANGED <<nonFindVars, feSubdirs, walk, pos, has_error, examples, feLogged>>

\* A scan that raises at the first tag of incorrect format.
CheckFileFailFast ==
    /\ fePc = "scanning"
    /\ pos <= Len(walk)
    /\ LET file == walk[pos]
       IN  IF EndsWithHelper(file) \/ file.ext # SdkToExtension(ScanSdk) \/ ~file.tag.present
             THEN /\ pos' = pos + 1
                  /\ UNCHANGED <<has_error, examples, feLogged, fePc>>
             ELSE \E order \in FieldOrders :
                    IF ~ValidateTag(file.tag.dict, SupportedCategories, order).valid
                      THEN /\ feLogged' = feLogged \cup {pos}
                           /\ has_error' = TRUE
                           /\ fePc' = "raised_format"
                           /\ UNCHANGED <<pos, examples>>
                      ELSE /\ examples' = Append(examples, BuildExample(file))
                           /\ pos' = pos + 1
                           /\ UNCHANGED <<has_error, feLogged, fePc>>
    /\ UNCHANGED <<nonFindVars, feSubdirs, walk>>

\* One turn of the loops of find_examples: _check_file on the next file,
\* then has_error = has_error or error_during_check_file. A
\* ValidationException of _get_example ends find_examples at once.
CheckFile ==
    /\ fePc = "scanning"
    /\ pos <= Len(walk)
    /\ LET file == walk[pos]
       IN  IF EndsWithHelper(file) \/ file.ext # SdkToExtension(ScanSdk) \/ ~file.tag.present
             THEN /\ pos' = pos + 1
                  /\ UNCHANGED <<has_error, examples, feLogged, fePc>>
             ELSE \E order \in FieldOrders :
                    IF ~ValidateTag(file.tag.dict, SupportedCategories, order).valid
                      THEN /\ feLogged' = feLogged \cup {pos}
                           /\ has_error' = TRUE
                           /\ pos' = pos + 1
                           /\ UNCHANGED <<examples, fePc>>
                      ELSE LET example == BuildExample(file)
                           IN  IF ValidateExampleFields(example) = "ok"
                                 THEN /\ examples' = Append(examples, example)
                                      /\ pos' = pos + 1
                                      /\ UNCHANGED <<has_error, feLogged, fePc>>
                                 ELSE /\ fePc' = "raised_validation"
                                      /\ UNCHANGED <<pos, has_error, examples, feLogged>>
    /\ UNCHANGED <<nonFindVars, feSubdirs, walk>>

\* After the loops: raise ValueError if has_error, else return examples.
FindExamplesEnds ==
    /\ fePc = "scanning"
    /\ pos > Len(walk)
    /\ fePc' = IF has_error THEN "raised_format" ELSE "returned"
    /\ UNCHANGED <<nonFindVars, feSubdirs, walk, pos, has_error, examples, feLogged>>

FindNext == FindExamples \/ CheckFile \/ FindExamplesEnds

\* A file whose tag the scan extracts and the validator rejects.
MalformedFile(file) ==
    /\ ~EndsWithHelper(file)
    /\ file.ext = SdkToExtension(ScanSdk)
    /\ file.tag.present
    /\ \/ Rule1Violated(file.tag.dict)
       \/ Rule2Violated(file.tag.dict)
       \/ Rule3Violated(file.tag.dict)
       \/ Rule4Violated(file.tag.dict)

Malformed(upto) == {i \in 1..upto : MalformedFile(walk[i])}

Words == {"beam-playground", "name", "x", "date", "2021-99-99", "import"}
Whitespace == {" ", "\t", "\n"}

\* str.replace(old, new) for a one-character old.
RECURSIVE Replace(_, _, _)
Replace(text, old, new) ==
    IF text = <<>> THEN <<>>
    ELSE (IF Head(text) = old THEN new ELSE <<Head(text)>>)
             \o Replace(Tail(text), old, new)

\* line.replace("//", "").replace("#", "").replace("\t", "    ")
FormattedLine(line) ==
    Replace(Replace(Replace(line, "//", <<>>), "#", <<>>),
            "\t", <<" ", " ", " ", " ">>)

\* str.lstrip()
RECURSIVE LStrip(_)
LStrip(text) ==
    IF text # <<>> /\ Head(text) \in Whitespace THEN LStrip(Tail(text)) ELSE text

\* Config.BEAM_PLAYGROUND_TITLE and Config.BEAM_PLAYGROUND (config.py): the
\* title is the key line of the tag, line break included, as get_tag compares
\* it with a whole left-stripped line and loads the text that starts with it.
BEAM_PLAYGROUND_TITLE == <<"beam-playground", ":", "\n">>
BEAM_PLAYGROUND == "beam-playground"

(***************************************************************************)
(* yaml.load(text, Loader=yaml.SafeLoader) on the block mappings with      *)
(* plain scalars that the lines of the model can form.  The loader first   *)
(* composes the whole document, which raises a YAMLError for text that is  *)
(* not well formed, and then constructs the values, where a scalar of      *)
(* timestamp form that is no calendar date raises ValueError.              *)
(***************************************************************************)
Range(f) == {f[i] : i \in DOMAIN f}

RECURSIVE SplitLines(_)
SplitLines(text) ==
    IF text = <<>> THEN <<>>
    ELSE IF "\n" \notin Range(text) THEN <<text>>
    ELSE LET i == CHOOSE k \in 1..Len(text) :
                      text[k] = "\n" /\ \A j \in 1..(k - 1) : text[j] # "\n"
         IN  <<SubSeq(text, 1, i - 1)>> \o SplitLines(SubSeq(text, i + 1, Len(text)))

RECURSIVE LStripSpaces(_)
LStripSpaces(text) ==
    IF text # <<>> /\ Head(text) = " " THEN LStripSpaces(Tail(text)) ELSE text

RECURSIVE RStripSpaces(_)
RStripSpaces(text) ==
    IF text # <<>> /\ text[Len(text)] = " "
    THEN RStripSpaces(SubSeq(text, 1, Len(text) - 1)) ELSE text

\* The column a line's content starts at, and the content.
Indent(line) == Len(line) - Len(LStripSpaces(line))
Content(line) == RStripSpaces(LStripSpaces(line))

IsPlain(c) == c # <<>> /\ c[1] \in Words /\ \A i \in 1..Len(c) : c[i] \in Words \cup {" "}
\* "key:" and "key: value"
IsKeyOnly(c) == Len(c) = 2 /\ c[1] \in Words /\ c[2] = ":"
IsKeyValue(c) ==
    /\ Len(c) >= 4 /\ c[1] \in Words /\ c[2] = ":" /\ c[3] = " "
    /\ IsPlain(LStripSpaces(SubSeq(c, 4, Len(c))))
LineClass(c) ==
    CASE c = <<>> -> "blank"
      [] IsKeyOnly(c) -> "key"
      [] IsKeyValue(c) -> "keyvalue"
      [] IsPlain(c) -> "plain"

\* Scalars of timestamp form that datetime.date rejects.
InvalidDates == {"2021-99-99"}
IsInvalidDate(value) == value.type = "str" /\ Len(value.s) = 1 /\ value.s[1] \in InvalidDates

IsPrefix(p, q) == Len(p) <= Len(q) /\ SubSeq(q, 1, Len(p)) = p

\* The loader before the first line: no block open, no node composed.
LoaderStart ==
    [err |-> FALSE, stack |-> <<>>, path |-> <<>>, open |-> FALSE, blanks |-> 0,
     doc |-> <<>>, badDate |-> FALSE]

LoaderError(st) == [st EXCEPT !.err = TRUE]

LastIsInvalidDate(st) == st.doc # <<>> /\ IsInvalidDate(st.doc[Len(st.doc)].value)

\* Close the block mappings indented deeper than column n.
RECURSIVE Unwind(_, _)
Unwind(st, n) ==
    IF st.stack # <<>> /\ st.stack[Len(st.stack)] > n
    THEN Unwind([st EXCEPT !.stack = SubSeq(st.stack, 1, Len(st.stack) - 1),
                           !.path = SubSeq(st.path, 1, Len(st.path) - 1)], n)
    ELSE st

\* A mapping entry "key:" or "key: value" whose key is now at st.path; a key
\* given twice keeps the later entry.
AddEntry(st, value, isOpen) ==
    [st EXCEPT !.doc = SelectSeq(st.doc, LAMBDA e : ~IsPrefix(st.path, e.path))
                           \o <<[path |-> st.path, value |-> value]>>,
               !.open = isOpen, !.blanks = 0,
               !.badDate = st.badDate \/ LastIsInvalidDate(st)]

\* A line "key:" (value PyNone, isOpen) or "key: value" at column n.
KeyLine(st, n, key, value, isOpen) ==
    IF st.stack = <<>>
    THEN AddEntry([st EXCEPT !.stack = <<n>>, !.path = <<key>>], value, isOpen)
    ELSE IF n > st.stack[Len(st.stack)]
    THEN \* deeper than the open mapping: the value of a key that has none
         \* yet, else "mapping values are not allowed here"
         IF st.open
         THEN AddEntry([st EXCEPT !.stack = Append(st.stack, n),
                                  !.path = Append(st.path, key)], value, isOpen)
         ELSE LoaderError(st)
    ELSE LET u == Unwind(st, n)
         IN  \* the column must be the one of an open mapping
             IF u.stack = <<>> \/ u.stack[Len(u.stack)] # n
             THEN LoaderError(st)
             ELSE AddEntry([u EXCEPT !.path = Append(SubSeq(u.path, 1, Len(u.path) - 1), key)],
                           value, isOpen)

\* The line folding of a plain scalar: one line break reads as a space,
\* k blank lines read as k line breaks.
Fold(blanks) == IF blanks = 0 THEN <<" ">> ELSE [i \in 1..blanks |-> "\n"]

\* A line of plain text at column n, a mapping being open: the value of the
\* last key or the continuation of its plain scalar when indented deeper
\* than the mapping, else "could not find expected ':'".
PlainLine(st, n, text) ==
    IF n > st.stack[Len(st.stack)]
    THEN LET last == st.doc[Len(st.doc)]
             scalar == IF st.open THEN text ELSE last.value.s \o Fold(st.blanks) \o text
         IN  [st EXCEPT !.doc[Len(st.doc)].value = PyStr(scalar),
                        !.open = FALSE, !.blanks = 0]
    ELSE LoaderError(st)

LoadLine(st, line) ==
    LET n == Indent(line)
        c == Content(line)
        class == LineClass(c)
    IN  IF st.err THEN st
        ELSE CASE class = "blank" -> [st EXCEPT !.blanks = st.blanks + 1]
               [] class = "key" -> KeyLine(st, n, c[1], PyNone, TRUE)
               [] class = "keyvalue" ->
                      KeyLine(st, n, c[1], PyStr(LStripSpaces(SubSeq(c, 4, Len(c)))), FALSE)
               [] class = "plain" /\ st.stack # <<>> -> PlainLine(st, n, c)

RECURSIVE LoadLines(_, _)
LoadLines(st, ls) ==
    IF ls = <<>> THEN st ELSE LoadLines(LoadLine(st, Head(ls)), Tail(ls))

\* The Python value of the node at path p of a composed document.
RECURSIVE NodeValue(_, _)
NodeValue(doc, p) ==
    LET below == {i \in 1..Len(doc) : IsPrefix(p, doc[i].path) /\ Len(doc[i].path) > Len(p)}
        here == CHOOSE i \in 1..Len(doc) : doc[i].path = p
    IN  IF below = {} THEN doc[here].value
        ELSE PyDict([k \in {doc[i].path[Len(p) + 1] : i \in below} |->
                        NodeValue(doc, Append(p, k))])

\* yaml.load: the exception it raises or the object it returns.
YamlLoad(text) ==
    LET st == LoadLines(LoaderStart, SplitLines(text))
    IN  IF st.err THEN [raises |-> "YAMLError"]
        ELSE IF st.badDate \/ LastIsInvalidDate(st) THEN [raises |-> "ValueError"]
        ELSE [raises |-> "nothing",
              object |-> IF st.doc = <<>> THEN PyNone ELSE NodeValue(st.doc, <<>>)]

(***************************************************************************)
(* The files get_tag reads and the scan itself.                            *)
(***************************************************************************)
\* Lines of a source file, as readlines() returns them.
FileLines ==
    { <<"#", " ", "beam-playground", ":", "\n">>,
      <<"#", " ", " ", " ", "name", ":", " ", "x", "\n">>,
      <<"#", "\t", "name", ":", " ", "x", "\n">>,
      <<"#", " ", " ", " ", "date", ":", " ", "2021-99-99", "\n">>,
      <<"#", " ", " ", " ", " ", " ", "import", "\n">>,
      <<"//", "import", "\n">>,
      <<"#", "\n">> }

\* A last line that has no line break.
UnendedLines == { <<"#", " ", "beam-playground", ":">> }

Files ==
    BoundedSeqs(FileLines, MaxLines)
        \cup {Append(f, l) : f \in BoundedSeqs(FileLines, MaxLines - 1), l \in UnendedLines}

\* formatted_line.lstrip() == Config.BEAM_PLAYGROUND_TITLE
IsTitleLine(line) == LStrip(FormattedLine(line)) = BEAM_PLAYGROUND_TITLE

GetTagIdle ==
    /\ lines = <<>> /\ lineNo = 1
    /\ add_to_yaml = FALSE /\ yaml_string = <<>> /\ tag_string = <<>>
    /\ gtPc = "init" /\ gtResult = NoTag

\* get_tag has read the file and is at the head of its for loop.
GetTagInit ==
    /\ lines \in Files /\ lineNo = 1
    /\ add_to_yaml = FALSE /\ yaml_string = <<>> /\ tag_string = <<>>
    /\ gtPc = "loop" /\ gtResult = NoTag

\* A scan that skips a line failing to parse and goes on with the next.
ScanLineSkipping ==
    /\ gtPc = "loop" /\ lineNo <= Len(lines)
    /\ LET line == lines[lineNo]
           formatted_line == FormattedLine(line)
           yaml_with_new_string == yaml_string \o formatted_line
       IN  IF add_to_yaml = FALSE
           THEN /\ IF IsTitleLine(line)
                   THEN /\ add_to_yaml' = TRUE
                        /\ yaml_string' = yaml_string \o LStrip(formatted_line)
                        /\ tag_string' = tag_string \o line
                   ELSE UNCHANGED <<add_to_yaml, yaml_string, tag_string>>
                /\ lineNo' = lineNo + 1
                /\ gtPc' = gtPc
           ELSE IF YamlLoad(yaml_with_new_string).raises = "nothing"
                THEN /\ yaml_string' = yaml_with_new_string
                     /\ tag_string' = tag_string \o line
                     /\ lineNo' = lineNo + 1
                     /\ UNCHANGED <<add_to_yaml, gtPc>>
                ELSE /\ lineNo' = lineNo + 1
                     /\ UNCHANGED <<add_to_yaml, yaml_string, tag_string, gtPc>>
    /\ UNCHANGED <<nonTagVars, lines, gtResult>>

\* One iteration of the for loop, a line being left.
ScanLine ==
    /\ gtPc = "loop" /\ lineNo <= Len(lines)
    /\ LET line == lines[lineNo]
           formatted_line == FormattedLine(line)
           yaml_with_new_string == yaml_string \o formatted_line
       IN  IF add_to_yaml = FALSE
           THEN /\ IF IsTitleLine(line)
                   THEN /\ add_to_yaml' = TRUE
                        /\ yaml_string' = yaml_string \o LStrip(formatted_line)
                        /\ tag_string' = tag_string \o line
                   ELSE UNCHANGED <<add_to_yaml, yaml_string, tag_string>>
                /\ lineNo' = lineNo + 1
                /\ gtPc' = gtPc
           ELSE CASE YamlLoad(yaml_with_new_string).raises = "nothing" ->
                         /\ yaml_string' = yaml_with_new_string
                         /\ tag_string' = tag_string \o line
                         /\ lineNo' = lineNo + 1
                         /\ UNCHANGED <<add_to_yaml, gtPc>>
                  [] YamlLoad(yaml_with_new_string).raises = "YAMLError" ->
                         \* except YAMLError: break
                         /\ gtPc' = "after"
                         /\ UNCHANGED <<add_to_yaml, yaml_string, tag_string, lineNo>>
                  [] OTHER ->
                         \* any other exception leaves get_tag
                         /\ gtPc' = "raised"
                         /\ UNCHANGED <<add_to_yaml, yaml_string, tag_string, lineNo>>
    /\ UNCHANGED <<nonTagVars, lines, gtResult>>

\* The for loop has no line left.
LoopEnds ==
    /\ gtPc = "loop" /\ lineNo > Len(lines)
    /\ gtPc' = "after"
    /\ UNCHANGED <<nonTagVars, lines, lineNo, add_to_yaml, yaml_string, tag_string, gtResult>>

\* The statements after the loop.
GetTagReturns ==
    /\ gtPc = "after"
    /\ IF add_to_yaml
       THEN LET loaded == YamlLoad(yaml_string)
            IN  IF loaded.raises = "nothing"
                THEN /\ gtResult' = ExampleTag(loaded.object.d[BEAM_PLAYGROUND], tag_string)
                     /\ gtPc' = "returned"
                ELSE /\ gtResult' = gtResult
                     /\ gtPc' = "raised"
       ELSE /\ gtResult' = NoTag
            /\ gtPc' = "returned"
    /\ UNCHANGED <<nonTagVars, lines, lineNo, add_to_yaml, yaml_string, tag_string>>

GetTagNext == ScanLine \/ LoopEnds \/ GetTagReturns

(***************************************************************************)
(* The tag scanner's claim.                                                *)
(***************************************************************************)
\* The first line whose stripped content is the marker; 0 when there is none.
TitleAt ==
    IF \E i \in 1..Len(lines) : IsTitleLine(lines[i])
    THEN CHOOSE i \in 1..Len(lines) :
             IsTitleLine(lines[i]) /\ \A j \in 1..(i - 1) : ~IsTitleLine(lines[j])
    ELSE 0

\* The candidate text made of the marker line m and the lines after it up to k.
RECURSIVE CandidateText(_, _)
CandidateText(m, k) ==
    IF k = m THEN LStrip(FormattedLine(lines[m]))
    ELSE CandidateText(m, k - 1) \o FormattedLine(lines[k])

Parses(text) == YamlLoad(text).raises = "nothing"

\* The first line after the marker line m with which the candidate does not
\* parse; one past the last line when there is none.
FirstFailing(m) ==
    IF \E k \in (m + 1)..Len(lines) : ~Parses(CandidateText(m, k))
    THEN CHOOSE k \in (m + 1)..Len(lines) :
             /\ ~Parses(CandidateText(m, k))
             /\ \A j \in (m + 1)..(k - 1) : Parses(CandidateText(m, j))
    ELSE Len(lines) + 1

\* The raw lines m .. f-1 of the file, concatenated.
RECURSIVE RawText(_, _)
RawText(m, f) == IF f <= m THEN <<>> ELSE RawText(m, f - 1) \o lines[f - 1]

\* C11: get_tag is a scanner with the states not-started, accumulating and
\* closed.  Before the first line whose stripped content equals the marker
\* nothing is accumulated; while accumulating, the raw text is the marker line
\* followed by the lines read since, each of which parsed with the candidate;
\* once the scan has ended, the raw text (the one get_tag returns) is the
\* marker line followed by exactly the lines before the first line that failed
\* to parse, whatever the lines after it are.
C11_RawTextEndsAtFirstFailure ==
    /\ (gtPc = "loop" /\ (TitleAt = 0 \/ lineNo <= TitleAt)) =>
           (~add_to_yaml /\ yaml_string = <<>> /\ tag_string = <<>>)
    /\ (gtPc = "loop" /\ add_to_yaml) =>
           /\ TitleAt \in 1..(lineNo - 1)
           /\ \A k \in (TitleAt + 1)..(lineNo - 1) : Parses(CandidateText(TitleAt, k))
           /\ yaml_string = CandidateText(TitleAt, lineNo - 1)
           /\ tag_string = RawText(TitleAt, lineNo)
    /\ (gtPc \in {"after", "returned"} /\ add_to_yaml) =>
           tag_string = RawText(TitleAt, FirstFailing(TitleAt))
    /\ gtPc = "returned" =>
           IF TitleAt = 0 THEN gtResult = NoTag
           ELSE /\ gtResult.present
                /\ gtResult.newlines = RawText(TitleAt, FirstFailing(TitleAt))

\* get_tag has returned a block of the marker line and at least one more line,
\* closed by a failing line that is followed by a line which would have parsed.
C11_Witness ==
    /\ gtPc = "returned" /\ TitleAt >= 1
    /\ LET f == FirstFailing(TitleAt)
       IN  /\ f > TitleAt + 1
           /\ f < Len(lines)
           /\ YamlLoad(CandidateText(TitleAt, f)).raises = "YAMLError"
           /\ \E k \in (f + 1)..Len(lines) :
                  Parses(CandidateText(TitleAt, f - 1) \o FormattedLine(lines[k]))

(***************************************************************************)
(* Specifications: one per component, the others idle.                     *)
(***************************************************************************)
Init == PollInit /\ NestedIdle /\ ValidateIdle /\ ExampleIdle /\ FindIdle /\ GetTagIdle
Next == PollNext
Spec == Init /\ [][Next]_vars

\* The event loop runs every task that can take a step, every backend call
\* ends (with an answer or an exception), and gather is resumed.
PollFairness ==
    /\ WF_vars(GetStatuses)
    /\ \A e \in Examples : WF_vars(TaskStep(e) \/ TaskRaise(e))
    /\ WF_vars(GatherReturns \/ GatherRaises)

\* The fair runs take the limit from the concurrency argument alone.
FairInit == Init /\ env = [kind |-> "absent", val |-> 0]

FairSpec == FairInit /\ [][Next]_vars /\ PollFairness

\* Fair scheduling against a backend that never raises.
FairNoRaiseSpec ==
    /\ Init
    /\ [][PollNextNoRaise]_vars
    /\ WF_vars(GetStatuses)
    /\ \A e \in Examples : WF_vars(TaskStep(e))
    /\ WF_vars(GatherReturns)

NestedSpecInit ==
    PollIdle /\ NestedInit /\ ValidateIdle /\ ExampleIdle /\ FindIdle /\ GetTagIdle

NestedSpec ==
    NestedSpecInit
        /\ [][CheckNoNested]_vars

ValidateSpecInit ==
    PollIdle /\ NestedIdle /\ ValidateInit /\ ExampleIdle /\ FindIdle /\ GetTagIdle

ValidateSpec ==
    ValidateSpecInit
        /\ [][Validate]_vars

ExampleSpecInit ==
    PollIdle /\ NestedIdle /\ ValidateIdle /\ ExampleInit /\ FindIdle /\ GetTagIdle

ExampleSpec ==
    ExampleSpecInit
        /\ [][GetExample]_vars

FindSpecInit ==
    PollIdle /\ NestedIdle /\ ValidateIdle /\ ExampleIdle /\ FindInit /\ GetTagIdle

FindSpec ==
    FindSpecInit
        /\ [][FindNext]_vars

GetTagSpecInit ==
    PollIdle /\ NestedIdle /\ ValidateIdle /\ ExampleIdle /\ FindIdle /\ GetTagInit

GetTagSpec ==
    GetTagSpecInit
        /\ [][GetTagNext]_vars

====
